---- MODULE Spec2Model ----
(***************************************************************************)
(* A model of the localsearch hybrid retrieval engine                      *)
(* (src/src/engines/sqlite.rs): the three SQLite tables behind             *)
(* SqliteLocalSearchEngine, the write path (insert_document,               *)
(* upsert_document, delete_document, create_table) and the read path       *)
(* (search, search_fts, search_by_embedding, search_hybrid).               *)
(*                                                                         *)
(* Representation.                                                         *)
(*   - A table is the sequence of its rows in rowid order.                 *)
(*   - A text (document content or query) is the sequence of its tokens;   *)
(*     the text <<"\"">> is a query FTS5 rejects with a syntax error.       *)
(*   - An f32 vector component is an integer number of fifths, so that     *)
(*     <<3,4>>, <<4,3>>, <<5,0>> and <<0,5>> are unit vectors.             *)
(*   - An f64 score is an exact fraction <<numerator, denominator>>.       *)
(***************************************************************************)
EXTENDS Integers, Sequences, FiniteSets, TLC

VARIABLES
    documents,            \* table documents(path PK, content, metadata, createdAt, updatedAt)
    documents_fts,        \* FTS5 table documents_fts(path UNINDEXED, content)
    document_embeddings,  \* table document_embeddings(path PK, embedding BLOB, FK path)
    tables,               \* whether the file the connection is on has the three tables
    embedder,             \* SqliteLocalSearchEngine.embedder is Some(_)
    foreign_keys,         \* whether the linked SQLite enforces FOREIGN KEY clauses
    disk,                 \* the file now at db_path, if it is not the one conn is on
    last                  \* the last call or event and what it returned

vars ==
    <<documents, documents_fts, document_embeddings, tables, embedder, foreign_keys,
      disk, last>>

(***************************************************************************)
(* Input domains.                                                          *)
(***************************************************************************)
\* A path is the sequence of its characters.
PathA == <<"a">>
PathB == <<"b">>
Paths == {PathA, PathB}

TextRust == <<"rust", "prog", "prog">>
TextCook == <<"cook", "prog">>

\* Option<HashMap<String,String>>: None, or Some of a one-entry map.
NoMeta == <<>>
SomeMeta == <<"title">>

\* The write calls the callers make: a DocumentRequest and the reading of
\* SystemTime::now() (seconds) at the call. Path a is written with two
\* contents at two times, path b with one.
Calls ==
    { [path |-> PathA, content |-> TextRust, metadata |-> SomeMeta, now |-> 1],
      [path |-> PathA, content |-> TextCook, metadata |-> NoMeta, now |-> 2],
      [path |-> PathB, content |-> TextCook, metadata |-> NoMeta, now |-> 1] }

\* Option::None; Some(x) of a score is the score, Some(n) of a limit is <<n>>.
None == <<>>

\* The queries: one-term texts, and a query string that is no FTS5
\* expression (an unbalanced double quote).
QueryProg == <<"prog">>
QueryRust == <<"rust">>
BadQuery == <<"\"">>
Queries == {QueryProg, QueryRust, BadQuery}

\* top: Option<i8>
MaxTop == 1
Tops == {None} \cup {<<n>> : n \in 0..MaxTop} \cup {<<127>>}

(***************************************************************************)
(* Value conversions of the write path.                                    *)
(***************************************************************************)
\* serde_json::to_string(&request.metadata)
MetaToJson(m) == IF m = NoMeta THEN "null" ELSE "{\"title\":\"t\"}"

\* serde_json::from_str(&metadata_str).ok()
JsonToMeta(str) ==
    IF str = "{\"title\":\"t\"}" THEN SomeMeta ELSE NoMeta

\* f32::to_le_bytes: the 32-bit word of a component (two's complement here),
\* least significant byte first.
ToLeBytes(x) ==
    <<x % 256, (x \div 256) % 256, (x \div 65536) % 256, (x \div 16777216) % 256>>

\* f32::from_le_bytes
FromLeBytes(b) ==
    b[1] + 256 * b[2] + 65536 * b[3]
        + 16777216 * (IF b[4] >= 128 THEN b[4] - 256 ELSE b[4])

RECURSIVE FlatMapBytes(_)
\* embedding.iter().flat_map(|f| f.to_le_bytes()).collect()
FlatMapBytes(vec) ==
    IF vec = <<>> THEN <<>> ELSE ToLeBytes(Head(vec)) \o FlatMapBytes(Tail(vec))

\* embedding_bytes.chunks_exact(4).map(from_le_bytes).collect(): a trailing
\* chunk of fewer than four bytes is dropped.
ChunksExact4(bytes) ==
    [i \in 1..(Len(bytes) \div 4) |-> FromLeBytes(SubSeq(bytes, 4 * i - 3, 4 * i))]

\* LocalEmbedder::embed_text: the normalized vector of a text (the model
\* behind it is an external collaborator; this is its fixed answer table).
Tokens(text) == {text[i] : i \in DOMAIN text}
embed_text(text) ==
    IF "cook" \in Tokens(text) THEN <<0, 5>>
    ELSE IF "rust" \in Tokens(text) THEN <<3, 4>>
    ELSE IF "none" \in Tokens(text) THEN <<4, 3>>
    ELSE <<5, 0>>

(***************************************************************************)
(* The SQL statements of the write path, on tables as row sequences.       *)
(* Each returns the table after the statement and whether it succeeded     *)
(* (ok) or how many rows it changed (n).                                   *)
(***************************************************************************)
HasPath(table, path) == \E i \in DOMAIN table : table[i].path = path
RowsOf(table, path) == {i \in DOMAIN table : table[i].path = path}
PathsOf(table) == {table[i].path : i \in DOMAIN table}

\* A documents table without its primary key: every INSERT adds a row.
SqlInsertDocumentNoKey(docs, row) == [ok |-> TRUE, t |-> Append(docs, row)]

\* INSERT INTO documents ...: path is the PRIMARY KEY.
SqlInsertDocument(docs, row) ==
    IF HasPath(docs, row.path)
    THEN [ok |-> FALSE, t |-> docs]
    ELSE [ok |-> TRUE, t |-> Append(docs, row)]

\* UPDATE documents SET content, metadata, updatedAt WHERE path = ?
SqlUpdateDocument(docs, path, content, metadata_str, updated_at) ==
    [n |-> Cardinality(RowsOf(docs, path)),
     t |-> [i \in DOMAIN docs |->
              IF docs[i].path = path
              THEN [docs[i] EXCEPT !.content = content,
                                   !.metadata = metadata_str,
                                   !.updatedAt = updated_at]
              ELSE docs[i]]]

\* INSERT INTO document_embeddings ...: path is the PRIMARY KEY and, where
\* foreign keys are enforced, must be the path of a documents row.
SqlInsertEmbedding(emb, docs, fk, path, bytes) ==
    IF HasPath(emb, path) \/ (fk /\ ~HasPath(docs, path))
    THEN [ok |-> FALSE, t |-> emb]
    ELSE [ok |-> TRUE, t |-> Append(emb, [path |-> path, embedding |-> bytes])]

\* UPDATE document_embeddings SET embedding = ? WHERE path = ?
SqlUpdateEmbedding(emb, path, bytes) ==
    [i \in DOMAIN emb |->
       IF emb[i].path = path THEN [emb[i] EXCEPT !.embedding = bytes] ELSE emb[i]]

\* INSERT INTO documents_fts ...: the FTS5 table has no key.
SqlInsertFts(fts, path, content) ==
    Append(fts, [path |-> path, content |-> content])

\* An update of the index that adds the row instead of changing it.
SqlUpdateFtsByInsert(fts, path, content) ==
    Append(fts, [path |-> path, content |-> content])

\* UPDATE documents_fts SET content = ? WHERE path = ?
SqlUpdateFts(fts, path, content) ==
    [i \in DOMAIN fts |->
       IF fts[i].path = path THEN [fts[i] EXCEPT !.content = content] ELSE fts[i]]

\* DELETE FROM <table> WHERE path = ?
SqlDeleteWherePath(table, path) ==
    SelectSeq(table, LAMBDA row : row.path # path)

\* DELETE FROM documents WHERE path = ?: where foreign keys are enforced a
\* documents row that a document_embeddings row references cannot go.
SqlDeleteDocument(docs, emb, fk, path) ==
    IF fk /\ HasPath(docs, path) /\ HasPath(emb, path)
    THEN [ok |-> FALSE, t |-> docs]
    ELSE [ok |-> TRUE, t |-> SqlDeleteWherePath(docs, path)]

(***************************************************************************)
(* The write path. A store is the record of the three tables; every        *)
(* handler returns the store it leaves behind and its Result.              *)
(***************************************************************************)
Store(d, f, e, t) ==
    [documents |-> d, documents_fts |-> f, document_embeddings |-> e, tables |-> t]

Ok(s) == [ok |-> TRUE, err |-> "none", store |-> s]
Err(kind, s) == [ok |-> FALSE, err |-> kind, store |-> s]

\* insert_document: the documents row, then (with an embedder) the
\* embedding row, then the FTS row; the first failure returns at once.
insert_document(s, emb, fk, request, now, embedOk) ==
    LET row == [path |-> request.path, content |-> request.content,
                metadata |-> MetaToJson(request.metadata),
                createdAt |-> now, updatedAt |-> now]
        r1 == SqlInsertDocument(s.documents, row)
        s1 == [s EXCEPT !.documents = r1.t]
        r2 == SqlInsertEmbedding(s1.document_embeddings, s1.documents, fk,
                                 request.path, FlatMapBytes(embed_text(request.content)))
        s2 == IF emb THEN [s1 EXCEPT !.document_embeddings = r2.t] ELSE s1
        s3 == [s2 EXCEPT !.documents_fts =
                  SqlInsertFts(s2.documents_fts, request.path, request.content)]
    IN  IF ~s.tables THEN Err("no table", s)
        ELSE IF ~r1.ok THEN Err("duplicate", s)
        ELSE IF emb /\ ~embedOk THEN Err("embed", s1)
        ELSE IF emb /\ ~r2.ok THEN Err("constraint", s1)
        ELSE Ok(s3)

\* upsert_document: UPDATE documents; no row changed -> insert_document;
\* otherwise UPDATE the embedding (with an embedder) and the FTS row.
upsert_document(s, emb, fk, request, now, embedOk) ==
    LET r1 == SqlUpdateDocument(s.documents, request.path, request.content,
                                MetaToJson(request.metadata), now)
        s1 == [s EXCEPT !.documents = r1.t]
        s2 == IF emb
              THEN [s1 EXCEPT !.document_embeddings =
                        SqlUpdateEmbedding(s1.document_embeddings, request.path,
                                           FlatMapBytes(embed_text(request.content)))]
              ELSE s1
        s3 == [s2 EXCEPT !.documents_fts =
                  SqlUpdateFts(s2.documents_fts, request.path, request.content)]
    IN  IF ~s.tables THEN Err("no table", s)
        ELSE IF r1.n = 0 THEN insert_document(s, emb, fk, request, now, embedOk)
        ELSE IF emb /\ ~embedOk THEN Err("embed", s1)
        ELSE Ok(s3)

\* delete_document: the embedding row (only with an embedder), the FTS row,
\* then the documents row.
delete_document(s, emb, fk, path) ==
    LET s1 == IF emb
              THEN [s EXCEPT !.document_embeddings =
                        SqlDeleteWherePath(s.document_embeddings, path)]
              ELSE s
        s2 == [s1 EXCEPT !.documents_fts = SqlDeleteWherePath(s1.documents_fts, path)]
        r3 == SqlDeleteDocument(s2.documents, s2.document_embeddings, fk, path)
        s3 == [s2 EXCEPT !.documents = r3.t]
    IN  IF ~s.tables THEN Err("no table", s)
        ELSE IF ~r3.ok THEN Err("constraint", s2)
        ELSE Ok(s3)

\* create_table: documents and document_embeddings are created only if
\* absent; documents_fts is dropped and created empty.
create_table(s) == [s EXCEPT !.documents_fts = <<>>, !.tables = TRUE]

\* A count taken from the lexical index.
StatsOfIndex(s) == Len(s.documents_fts)

\* stats: SELECT COUNT(*) FROM documents
stats(s) == Len(s.documents)

(***************************************************************************)
(* f64 scores as exact fractions <<n, d>>, d > 0, kept in lowest terms.    *)
(***************************************************************************)
RECURSIVE Gcd(_, _)
Gcd(a, b) == IF b = 0 THEN a ELSE Gcd(b, a % b)

Abs(x) == IF x < 0 THEN -x ELSE x

Frac(n, d) ==
    LET g == Gcd(Abs(n), Abs(d))
        sgn == IF d < 0 THEN -1 ELSE 1
    IN  IF n = 0 THEN <<0, 1>> ELSE <<sgn * (n \div g), sgn * (d \div g)>>

FAdd(x, y) == Frac(x[1] * y[2] + y[1] * x[2], x[2] * y[2])
FMul(x, y) == Frac(x[1] * y[1], x[2] * y[2])
FDiv(x, y) == Frac(x[1] * y[2], x[2] * y[1])
FNeg(x) == <<-x[1], x[2]>>
FAbs(x) == <<Abs(x[1]), x[2]>>
FLt(x, y) == x[1] * y[2] < y[1] * x[2]
FZero == <<0, 1>>
FOne == <<1, 1>>

\* Option<f64>::unwrap_or
UnwrapOr(opt, dflt) == IF opt = None THEN dflt ELSE opt

(***************************************************************************)
(* Path filters: d.path LIKE '%' || ? || '%', one per filter, joined by OR.*)
(***************************************************************************)
\* SQLite LIKE compares ASCII letters without regard to case.
Fold(ch) ==
    CASE ch = "A" -> "a"
      [] ch = "B" -> "b"
      [] OTHER -> ch

RECURSIVE Like(_, _)
\* text LIKE pattern: % matches any run of characters, _ any one character.
Like(pattern, text) ==
    IF pattern = <<>> THEN text = <<>>
    ELSE IF Head(pattern) = "%"
         THEN Like(Tail(pattern), text) \/ (text # <<>> /\ Like(pattern, Tail(text)))
    ELSE IF text = <<>> THEN FALSE
    ELSE IF Head(pattern) = "_" THEN Like(Tail(pattern), Tail(text))
    ELSE Fold(Head(pattern)) = Fold(Head(text)) /\ Like(Tail(pattern), Tail(text))

\* Option<&[String]>: None, or Some of a list of filters; Some of the empty
\* list is dropped by path_filters.filter(|f| !f.is_empty()).
NoFilters == <<"None">>
SomeFilters(list) == <<"Some", list>>

PassesFilters(path, path_filters) ==
    IF path_filters = NoFilters \/ path_filters[2] = <<>>
    THEN TRUE
    ELSE \E k \in DOMAIN path_filters[2] :
            Like(<<"%">> \o path_filters[2][k] \o <<"%">>, path)

(***************************************************************************)
(* Sorting as Vec::sort_by does it: stable.                                *)
(***************************************************************************)
RECURSIVE InsertDesc(_, _, _)
\* x goes behind every element whose key is not smaller than its own.
InsertDesc(sorted, x, field) ==
    IF sorted = <<>> THEN <<x>>
    ELSE IF FLt(Head(sorted)[field], x[field])
         THEN <<x>> \o sorted
         ELSE <<Head(sorted)>> \o InsertDesc(Tail(sorted), x, field)

\* A list left in the order in which it was built.
Unsorted(seq, field) == seq

RECURSIVE SortDesc(_, _)
\* results.sort_by(|a, b| b.key.partial_cmp(&a.key))
SortDesc(seq, field) ==
    IF seq = <<>> THEN <<>>
    ELSE InsertDesc(SortDesc(SubSeq(seq, 1, Len(seq) - 1), field), seq[Len(seq)], field)

(***************************************************************************)
(* The lexical index, consumed through MATCH and bm25().                   *)
(***************************************************************************)
\* documents_fts MATCH ?1, for a one-term query.
Matches(content, query) == \E i \in DOMAIN content : content[i] = query[1]

\* bm25(documents_fts): better matches get smaller (more negative) values;
\* here minus the number of occurrences of the term.
Bm25(content, query) == 0 - Cardinality({i \in DOMAIN content : content[i] = query[1]})

\* f64::exp(x) is 0.0 for every x at or below minus this (e^-745.14 is
\* below the smallest positive f64).
ExpUnderflow == 746

\* f64::exp of a score difference, to two decimals, and 0 where the f64
\* result underflows. Differences from -4 down to the underflow are not in
\* the table and no input produces one.
Exp(x) ==
    CASE x = <<0, 1>> -> <<1, 1>>
      [] x = <<-1, 1>> -> <<37, 100>>
      [] x = <<-2, 1>> -> <<14, 100>>
      [] x = <<-3, 1>> -> <<5, 100>>
      [] x[1] + ExpUnderflow * x[2] <= 0 -> <<0, 1>>

\* f64::NEG_INFINITY: below every score under FLt.
NegInfinity == <<-1, 0>>

RECURSIVE FMax(_, _)
\* scores.iter().fold(init, |a, &b| a.max(b))
FMax(scores, init) ==
    IF scores = <<>> THEN init
    ELSE FMax(Tail(scores), IF FLt(init, Head(scores)) THEN Head(scores) ELSE init)

RECURSIVE FSum(_)
FSum(scores) == IF scores = <<>> THEN FZero ELSE FAdd(Head(scores), FSum(Tail(scores)))

\* A transformation that gives every score the same share.
SoftmaxUniform(scores) == [i \in DOMAIN scores |-> Frac(1, Len(scores))]

\* softmax: exp(score - max) / sum of those; the empty list maps to itself.
softmax(scores) ==
    LET max_score == FMax(scores, NegInfinity)
        exp_scores == [i \in DOMAIN scores |-> Exp(FAdd(scores[i], FNeg(max_score)))]
        sum_exp == FSum(exp_scores)
    IN  [i \in DOMAIN scores |->
            IF FLt(FZero, sum_exp)
            THEN FDiv(exp_scores[i], sum_exp)
            ELSE Frac(1, Len(scores))]

RECURSIVE Join(_, _)
\* outer JOIN inner ON outer.path = inner.path, in the order of outer.
Join(outer, inner) ==
    IF outer = <<>> THEN <<>>
    ELSE LET rs == SelectSeq(inner, LAMBDA r : r.path = Head(outer).path)
         IN  [i \in DOMAIN rs |-> [l |-> Head(outer), r |-> rs[i]]]
                \o Join(Tail(outer), inner)

\* row_mapper of search_fts: the score is the negated bm25 value.
FtsRow(j, query) ==
    [path |-> j.r.path,
     metadata |-> JsonToMeta(j.r.metadata),
     created_at |-> j.r.createdAt,
     updated_at |-> j.r.updatedAt,
     fts_score |-> FNeg(<<Bm25(j.l.content, query), 1>>),
     semantic_score |-> None,
     final_score |-> FNeg(<<Bm25(j.l.content, query), 1>>)]

\* result.fts_score = Some(normalized_scores[i]); result.final_score = ...
FtsWithScores(results, normalized_scores) ==
    [i \in DOMAIN results |->
        [results[i] EXCEPT !.fts_score = normalized_scores[i],
                           !.final_score = normalized_scores[i]]]

\* if !scores.is_empty() { softmax ... }
FtsNormalize(results) ==
    IF results = <<>> THEN <<>>
    ELSE FtsWithScores(results, softmax([i \in DOMAIN results |-> results[i].fts_score]))

\* ORDER BY score: best (smallest) bm25 first.
FtsScan(joined, query) ==
    SortDesc([i \in DOMAIN joined |-> FtsRow(joined[i], query)], "final_score")

\* WHERE documents_fts MATCH ?1 AND (d.path LIKE ...)
FtsHits(s, query, path_filters) ==
    SelectSeq(s.documents_fts,
              LAMBDA row : Matches(row.content, query)
                             /\ PassesFilters(row.path, path_filters))

\* A lexical query that normalizes over all the hits and filters afterwards.
SearchFtsFilterLate(s, query, path_filters) ==
    IF ~s.tables \/ query = BadQuery THEN [ok |-> FALSE, err |-> "fts", res |-> <<>>]
    ELSE [ok |-> TRUE, err |-> "none",
          res |-> SelectSeq(FtsNormalize(FtsScan(Join(FtsHits(s, query, NoFilters),
                                                      s.documents), query)),
                            LAMBDA r : PassesFilters(r.path, path_filters))]

\* A lexical query that fails when no row matches.
SearchFtsNoHitsFails(s, query, path_filters) ==
    IF ~s.tables \/ query = BadQuery \/ FtsHits(s, query, path_filters) = <<>>
    THEN [ok |-> FALSE, err |-> "fts", res |-> <<>>]
    ELSE [ok |-> TRUE, err |-> "none",
          res |-> FtsNormalize(FtsScan(Join(FtsHits(s, query, path_filters),
                                            s.documents), query))]

\* search_fts: the FTS rows that match, joined to documents, filtered by
\* path, best bm25 first; the scores are negated and put through softmax.
\* A query FTS5 cannot parse, or a missing table, makes the statement fail.
search_fts(s, query, path_filters) ==
    IF ~s.tables \/ query = BadQuery THEN [ok |-> FALSE, err |-> "fts", res |-> <<>>]
    ELSE [ok |-> TRUE, err |-> "none",
          res |-> FtsNormalize(FtsScan(Join(FtsHits(s, query, path_filters),
                                            s.documents), query))]

\* A lexical result list whose missing semantic scores are filled with 0.
FulltextZeroFilled(r) ==
    [r EXCEPT !.res = [i \in DOMAIN r.res |->
        [r.res[i] EXCEPT !.semantic_score = FZero]]]

\* fts_score: Some(r.fts_score.unwrap_or(0.0)), semantic_score: None
FulltextOnly(r) ==
    [r EXCEPT !.res = [i \in DOMAIN r.res |->
        [r.res[i] EXCEPT !.fts_score = UnwrapOr(r.res[i].fts_score, FZero),
                         !.semantic_score = None]]]

\* search_fulltext_only
search_fulltext_only(s, query, path_filters) ==
    FulltextOnly(search_fts(s, query, path_filters))

(***************************************************************************)
(* The vector store scan.                                                  *)
(***************************************************************************)
RECURSIVE Dot(_, _)
Dot(a, b) == IF a = <<>> THEN 0 ELSE Head(a) * Head(b) + Dot(Tail(a), Tail(b))

\* A similarity that pairs the components up and ignores the lengths.
CosineZip(a, b) == Frac(Dot(a, b), 25)

\* cosine_similarity: 0.0 for vectors of different lengths, else the dot
\* product (components are fifths, so the product is in twenty-fifths).
cosine_similarity(a, b) ==
    IF Len(a) # Len(b) THEN FZero ELSE Frac(Dot(a, b), 25)

\* if similarity < 1e-3 { continue; }
SimilarityFloor == <<1, 1000>>

\* One row of the scan, scored against the query vector.
EmbeddingRow(j, similarity) ==
    [path |-> j.l.path,
     metadata |-> JsonToMeta(j.l.metadata),
     created_at |-> j.l.createdAt,
     updated_at |-> j.l.updatedAt,
     fts_score |-> None,
     semantic_score |-> similarity,
     final_score |-> similarity]

\* The scored rows; if similarity < 1e-3 { continue; }
EmbeddingScan(joined, query_embedding) ==
    SelectSeq([i \in DOMAIN joined |->
                  EmbeddingRow(joined[i],
                               cosine_similarity(query_embedding,
                                                 ChunksExact4(joined[i].r.embedding)))],
              LAMBDA r : ~FLt(r.final_score, SimilarityFloor))

\* A scan of the Embedding Records alone, without the join to documents.
EmbeddingRowsUnjoined(s, path_filters) ==
    [i \in DOMAIN s.document_embeddings |->
        [l |-> [path |-> s.document_embeddings[i].path,
                metadata |-> MetaToJson(NoMeta), createdAt |-> 0, updatedAt |-> 0],
         r |-> s.document_embeddings[i]]]

\* FROM documents d JOIN document_embeddings e ... WHERE d.path LIKE ...
EmbeddingRows(s, path_filters) ==
    Join(SelectSeq(s.documents, LAMBDA row : PassesFilters(row.path, path_filters)),
         s.document_embeddings)

\* search_by_embedding: documents joined to their embedding rows, filtered
\* by path, scored against the query vector, low scores skipped, best first.
\* Without the tables the statement cannot be prepared.
search_by_embedding(s, query_embedding, path_filters) ==
    IF ~s.tables THEN [ok |-> FALSE, err |-> "scan", res |-> <<>>]
    ELSE [ok |-> TRUE, err |-> "none",
          res |-> SortDesc(EmbeddingScan(EmbeddingRows(s, path_filters),
                                         query_embedding),
                           "semantic_score")]

\* fts_score: None, semantic_score: Some(r.semantic_score.unwrap_or(0.0))
SemanticOnly(r) ==
    [r EXCEPT !.res = [i \in DOMAIN r.res |->
        [r.res[i] EXCEPT !.fts_score = None,
                         !.semantic_score = UnwrapOr(r.res[i].semantic_score, FZero)]]]

\* search_semantic_only
search_semantic_only(s, emb, query, path_filters, embedOk) ==
    IF ~emb THEN [ok |-> FALSE, err |-> "no embedder", res |-> <<>>]
    ELSE IF ~embedOk THEN [ok |-> FALSE, err |-> "embed", res |-> <<>>]
    ELSE SemanticOnly(search_by_embedding(s, embed_text(query), path_filters))

(***************************************************************************)
(* Hybrid fusion and the public search.                                    *)
(***************************************************************************)
\* Equal weights for the two components.
HalfWeight == <<1, 2>>

FtsWeight == <<3, 5>>         \* 0.6
SemanticWeight == <<2, 5>>    \* 0.4
TinyScore == <<1, 100000>>    \* 1e-5

\* The lexical and the semantic sub-query of a hybrid search; a failed one
\* counts as no results (unwrap_or_default).
HybridFts(s, query, path_filters) ==
    LET r == search_fts(s, query, path_filters) IN IF r.ok THEN r.res ELSE <<>>

HybridSemantic(s, query, path_filters) ==
    LET r == search_by_embedding(s, embed_text(query), path_filters)
    IN  IF r.ok THEN r.res ELSE <<>>

\* A merge that keeps only the paths the lexical sub-query found.
HybridKeysLexicalOnly(s, query, path_filters) ==
    PathsOf(HybridFts(s, query, path_filters))

\* The keys of combined_results.
HybridKeys(s, query, path_filters) ==
    PathsOf(HybridFts(s, query, path_filters))
        \cup PathsOf(HybridSemantic(s, query, path_filters))

\* The last element of seq with the given path (HashMap::insert replaces).
LastWithPath(seq, path) ==
    seq[CHOOSE i \in DOMAIN seq :
            /\ seq[i].path = path
            /\ \A j \in DOMAIN seq : seq[j].path = path => j <= i]

\* max_fts_score: the largest lexical score, 1.0 for no lexical results.
MaxFtsScore(fts_results) ==
    IF fts_results = <<>> THEN FOne
    ELSE FMax([i \in DOMAIN fts_results |-> UnwrapOr(fts_results[i].fts_score, FZero)],
              UnwrapOr(fts_results[1].fts_score, FZero))

\* if max_fts_score.abs() < 1e-5 { 1.0 } else { max_fts_score }
Divisor(max_fts_score) ==
    IF FLt(FAbs(max_fts_score), TinyScore) THEN FOne ELSE max_fts_score

\* The SearchResult built from one entry of combined_results.
Fused(base, fts_score, semantic_score) ==
    [path |-> base.path,
     metadata |-> base.metadata,
     created_at |-> base.created_at,
     updated_at |-> base.updated_at,
     fts_score |-> fts_score,
     semantic_score |-> semantic_score,
     final_score |-> FAdd(FMul(UnwrapOr(fts_score, FZero), FtsWeight),
                          FMul(UnwrapOr(semantic_score, FZero), SemanticWeight))]

\* The entry of combined_results for a path: the lexical result is the base
\* when there is one, and each score is present if its sub-query found the
\* path.
Entry(fts_results, semantic_results, divisor, path) ==
    Fused(IF HasPath(fts_results, path) THEN LastWithPath(fts_results, path)
          ELSE LastWithPath(semantic_results, path),
          IF HasPath(fts_results, path)
          THEN FDiv(UnwrapOr(LastWithPath(fts_results, path).fts_score, FZero), divisor)
          ELSE None,
          IF HasPath(semantic_results, path)
          THEN UnwrapOr(LastWithPath(semantic_results, path).semantic_score, FZero)
          ELSE None)

\* The merge and the final sort; `order` is the order in which the HashMap
\* combined_results is iterated.
Fuse(fts_results, semantic_results, divisor, order) ==
    SortDesc([k \in DOMAIN order |->
                 Entry(fts_results, semantic_results, divisor, order[k])],
             "final_score")

\* search_hybrid with an embedder: normalize the lexical scores by their
\* maximum, merge by path, weigh, sort.
FuseResults(fts_results, semantic_results, order) ==
    Fuse(fts_results, semantic_results, Divisor(MaxFtsScore(fts_results)), order)

search_hybrid_fused(s, query, path_filters, order) ==
    FuseResults(HybridFts(s, query, path_filters),
                HybridSemantic(s, query, path_filters), order)

\* search_hybrid
search_hybrid(s, emb, query, path_filters, embedOk, order) ==
    IF ~emb THEN search_fulltext_only(s, query, path_filters)
    ELSE IF ~embedOk THEN [ok |-> FALSE, err |-> "embed", res |-> <<>>]
    ELSE [ok |-> TRUE, err |-> "none",
          res |-> search_hybrid_fused(s, query, path_filters, order)]

\* SearchType
SearchTypes == {"FullText", "Semantic", "Hybrid"}

\* top.unwrap_or(10)
DefaultTop == 10

Min(a, b) == IF a < b THEN a ELSE b

\* A limit that keeps one result more than asked for.
LimitPlusOne(top, len) ==
    LET t == IF top = None THEN 10 ELSE top[1] + 1
    IN  IF t < len THEN t ELSE len

\* min(top.unwrap_or(10) as usize, res.len()): a negative i8 converted to
\* usize exceeds every length.
Limit(top, len) ==
    LET t == IF top = None THEN DefaultTop ELSE top[1]
    IN  IF t < 0 THEN len ELSE Min(t, len)

\* res.into_iter().take(limit)
Take(r, top) ==
    [ok |-> r.ok, err |-> r.err, full |-> r.res,
     out |-> SubSeq(r.res, 1, Limit(top, Len(r.res)))]

\* search: the mode's ranked list, cut to the limit.
search(s, emb, query, search_type, top, path_filters, embedOk, order) ==
    Take(CASE search_type = "FullText" -> search_fulltext_only(s, query, path_filters)
           [] search_type = "Semantic" ->
                search_semantic_only(s, emb, query, path_filters, embedOk)
           [] OTHER -> search_hybrid(s, emb, query, path_filters, embedOk, order),
         top)

(***************************************************************************)
(* State machine.                                                          *)
(***************************************************************************)
Current == Store(documents, documents_fts, document_embeddings, tables)

\* disk when the file at db_path is the one the connection is on.
NoDisk == <<>>

NoCall ==
    [op |-> "new", path |-> <<>>, content |-> <<>>, metadata |-> NoMeta,
     ok |-> TRUE, err |-> "none"]

Call(op, request, r) ==
    [op |-> op, path |-> request.path, content |-> request.content,
     metadata |-> request.metadata, ok |-> r.ok, err |-> r.err]

Install(s) ==
    /\ documents' = s.documents
    /\ documents_fts' = s.documents_fts
    /\ document_embeddings' = s.document_embeddings
    /\ tables' = s.tables

\* A file without tables, as Connection::open creates it.
FreshFile == Store(<<>>, <<>>, <<>>, FALSE)

\* SqliteLocalSearchEngine::new on a fresh file.
Init ==
    /\ documents = <<>>
    /\ documents_fts = <<>>
    /\ document_embeddings = <<>>
    /\ tables = FALSE
    /\ embedder \in BOOLEAN
    /\ foreign_keys \in BOOLEAN
    /\ disk = NoDisk
    /\ last = NoCall

Insert ==
    \E request \in Calls, embedOk \in BOOLEAN :
        LET r == insert_document(Current, embedder, foreign_keys, request, request.now, embedOk)
        IN  /\ (embedOk \/ embedder)
            /\ Install(r.store)
            /\ last' = Call("insert", request, r)
            /\ UNCHANGED <<embedder, foreign_keys, disk>>

Upsert ==
    \E request \in Calls, embedOk \in BOOLEAN :
        LET r == upsert_document(Current, embedder, foreign_keys, request, request.now, embedOk)
        IN  /\ (embedOk \/ embedder)
            /\ Install(r.store)
            /\ last' = Call("upsert", request, r)
            /\ UNCHANGED <<embedder, foreign_keys, disk>>

Delete ==
    \E path \in Paths :
        LET r == delete_document(Current, embedder, foreign_keys, path)
        IN  /\ Install(r.store)
            /\ last' = Call("delete", [path |-> path, content |-> <<>>, metadata |-> NoMeta], r)
            /\ UNCHANGED <<embedder, foreign_keys, disk>>

\* The index flow and every test open an engine and call create_table.
CreateTable ==
    /\ Install(create_table(Current))
    /\ last' = [NoCall EXCEPT !.op = "create_table"]
    /\ UNCHANGED <<embedder, foreign_keys, disk>>

\* A refresh that keeps the connection it has.
RefreshKeepsConnection(s, d, openOk, closeOk) == Ok(s)

\* Connection::open(db_path): the connection is on the file now at db_path.
Opened(s, d) == IF d = NoDisk THEN s ELSE d[1]

\* refresh: Connection::open(db_path)?, then mem::replace puts the new
\* connection in place, then old_conn.close()?: a failing open leaves the
\* engine on its connection, a failing close returns the error with the
\* new connection already in place.
refresh(s, d, openOk, closeOk) ==
    IF ~openOk THEN Err("open", s)
    ELSE IF ~closeOk THEN Err("close", Opened(s, d))
    ELSE Ok(Opened(s, d))

\* SqliteLocalSearchEngine::new(db_path, embedder) on the existing file:
\* the next engine may or may not be given an embedder.
Reopen ==
    \E e \in BOOLEAN :
        /\ embedder' = e
        /\ Install(Opened(Current, disk))
        /\ disk' = NoDisk
        /\ last' = NoCall
        /\ UNCHANGED foreign_keys

\* The time at which the other engine wrote its document.
ReplacementTime == 3

\* The files another engine can have left: tables only, or one document
\* written at a time of its own.
Replacements ==
    {create_table(FreshFile),
     insert_document(create_table(FreshFile), FALSE, FALSE,
                     [path |-> PathB, content |-> TextCook, metadata |-> NoMeta],
                     ReplacementTime, TRUE).store}

\* Out of band, another file is moved to db_path (std::fs::rename): the open
\* connection stays on the file it was opened on.
Replace ==
    /\ \E r \in Replacements : disk' = <<r>>
    /\ last' = [NoCall EXCEPT !.op = "replace"]
    /\ UNCHANGED <<documents, documents_fts, document_embeddings, tables,
                   embedder, foreign_keys>>

Refresh ==
    /\ \E openOk, closeOk \in BOOLEAN :
        LET r == refresh(Current, disk, openOk, closeOk)
        IN  /\ openOk \/ closeOk
            /\ Install(r.store)
            /\ disk' = IF openOk THEN NoDisk ELSE disk
            /\ last' = [NoCall EXCEPT !.op = "refresh", !.ok = r.ok, !.err = r.err]
    /\ UNCHANGED <<embedder, foreign_keys>>

\* The orders in which a HashMap over the given keys can be iterated.
Orders(keys) ==
    {o \in [1..Cardinality(keys) -> keys] : \A i, j \in DOMAIN o : o[i] = o[j] => i = j}

\* No filter, a filter that is a path, one that differs from a path in case
\* only, and one made of a character LIKE reads as a wildcard.
FilterInputs ==
    {NoFilters, SomeFilters(<<PathA>>), SomeFilters(<< <<"A">> >>),
     SomeFilters(<< <<"_">> >>)}

Next == Insert \/ Upsert \/ Delete \/ CreateTable \/ Reopen \/ Replace \/ Refresh

Spec == Init /\ [][Next]_vars

(***************************************************************************)
(* The read path is observed in a specification of its own: the store is   *)
(* brought into any state the write path can leave it in (the calls are    *)
(* not recorded), and then one search is made and its result kept in       *)
(* `last`. A search changes no table, so nothing is lost by looking at the *)
(* one search that ends a behaviour.                                       *)
(***************************************************************************)
EmbedOutcomes == IF embedder THEN BOOLEAN ELSE {TRUE}

WriteOutcomes ==
    {insert_document(Current, embedder, foreign_keys, c, c.now, e).store :
        c \in Calls, e \in EmbedOutcomes}
    \cup {upsert_document(Current, embedder, foreign_keys, c, c.now, e).store :
        c \in Calls, e \in EmbedOutcomes}
    \cup {delete_document(Current, embedder, foreign_keys, p).store : p \in Paths}
    \cup {create_table(Current)}

Populate ==
    /\ last.op = "new"
    /\ \E s \in WriteOutcomes : Install(s)
    /\ UNCHANGED <<embedder, foreign_keys, disk, last>>

Configure ==
    /\ last.op = "new"
    /\ embedder' \in BOOLEAN
    /\ UNCHANGED <<documents, documents_fts, document_embeddings, tables,
                   foreign_keys, disk, last>>

Searched(query, search_type, top, path_filters, r) ==
    [op |-> "search", query |-> query, search_type |-> search_type,
     top |-> top, path_filters |-> path_filters,
     ok |-> r.ok, err |-> r.err, out |-> r.out, full |-> r.full]

Search ==
    /\ last.op = "new"
    /\ \E query \in Queries, search_type \in SearchTypes, top \in Tops,
          path_filters \in FilterInputs, embedOk \in EmbedOutcomes :
        \E order \in Orders(HybridKeys(Current, query, path_filters)) :
            last' = Searched(query, search_type, top, path_filters,
                             search(Current, embedder, query, search_type, top,
                                    path_filters, embedOk, order))
    /\ UNCHANGED <<documents, documents_fts, document_embeddings, tables,
                   embedder, foreign_keys, disk>>

SearchNext == Populate \/ Configure \/ Search

SearchSpec == Init /\ [][SearchNext]_vars

(***************************************************************************)
(* The write path without failures: one engine configuration, the calls    *)
(* that return success or the duplicate-key error, and create_table, which *)
(* every construction of an engine by the command line runs on the store   *)
(* it finds.                                                               *)
(***************************************************************************)
CleanCall ==
    /\ Insert \/ Upsert \/ Delete
    /\ last'.ok \/ last'.err = "duplicate"

CleanNext == CleanCall \/ CreateTable

CleanSpec == Init /\ [][CleanNext]_vars

(***************************************************************************)
(* Properties of the write path.                                           *)
(***************************************************************************)
\* The rows of a table that belong to other paths.
Others(table, path) == SelectSeq(table, LAMBDA row : row.path # path)

TablesUnchanged ==
    /\ documents' = documents
    /\ documents_fts' = documents_fts
    /\ document_embeddings' = document_embeddings

\* C1: insert on a path that has a Document record returns the
\* duplicate-key error and leaves all three tables (hence every record of
\* every path, the timestamps and the document count) as they were.
C1_DuplicateInsertRejected ==
    [][(last'.op = "insert" /\ HasPath(documents, last'.path)) =>
            /\ ~last'.ok
            /\ last'.err = "duplicate"
            /\ TablesUnchanged
            /\ stats(Current') = stats(Current)]_vars

\* A rejected insert whose content and time differ from the stored record's.
C1_Witness ==
    /\ last.op = "insert"
    /\ last.err = "duplicate"
    /\ Len(documents) = 2
    /\ \E i \in DOMAIN documents :
          /\ documents[i].path = last.path
          /\ documents[i].content # last.content
          /\ documents[i].createdAt = 1
    /\ HasPath(documents_fts, last.path)
    /\ HasPath(document_embeddings, last.path)

\* C2: after insert, upsert and delete calls that each return success or
\* the duplicate-key error, on an engine whose tables create_table made, the
\* paths with a Document record are the paths with a Lexical Index entry
\* and, with an embedder, the paths with an Embedding Record.
C2_StoresAgree ==
    /\ PathsOf(documents) = PathsOf(documents_fts)
    /\ embedder => PathsOf(documents) = PathsOf(document_embeddings)

\* C3: whenever upsert(p, c, m) returns success, p has a Document record
\* with content c, a Lexical Index entry with content c and, with an
\* embedder, an Embedding Record holding embed(c).
C3_UpsertRepairs ==
    (last.op = "upsert" /\ last.ok) =>
        /\ \E i \in DOMAIN documents :
              documents[i].path = last.path /\ documents[i].content = last.content
        /\ \E i \in DOMAIN documents_fts :
              documents_fts[i].path = last.path /\ documents_fts[i].content = last.content
        /\ embedder =>
              \E i \in DOMAIN document_embeddings :
                 /\ document_embeddings[i].path = last.path
                 /\ ChunksExact4(document_embeddings[i].embedding) = embed_text(last.content)

\* The paths a lexical search for one term returns.
LexicalHits(s, term) == PathsOf(search_fts(s, <<term>>, NoFilters).res)

\* C4: a successful upsert on a path without a Document record does what
\* insert does (one more document); on a path with one it keeps the count
\* and leaves the Document, the Lexical Index entry and the Embedding Record
\* holding the new content, so that a lexical search finds the path by the
\* new content's terms and no longer by terms of the old content alone.
C4_UpsertReplaces ==
    [][(last'.op = "upsert" /\ last'.ok) =>
        LET p == last'.path
            c == last'.content
            request == [path |-> p, content |-> c, metadata |-> last'.metadata]
        IN  IF ~HasPath(documents, p)
            THEN /\ stats(Current') = stats(Current) + 1
                 /\ \E now \in {1, 2} :
                       Current' = insert_document(Current, embedder, foreign_keys,
                                                  request, now, TRUE).store
            ELSE /\ stats(Current') = stats(Current)
                 /\ \A i \in DOMAIN documents' :
                       documents'[i].path = p =>
                          /\ documents'[i].content = c
                          /\ JsonToMeta(documents'[i].metadata) = last'.metadata
                 /\ \E i \in DOMAIN documents_fts' :
                       documents_fts'[i].path = p /\ documents_fts'[i].content = c
                 /\ embedder =>
                       \E i \in DOMAIN document_embeddings' :
                          /\ document_embeddings'[i].path = p
                          /\ ChunksExact4(document_embeddings'[i].embedding) = embed_text(c)
                 /\ \A t \in Tokens(c) : p \in LexicalHits(Current', t)
                 /\ \A i \in DOMAIN documents :
                       documents[i].path = p =>
                          \A t \in Tokens(documents[i].content) \ Tokens(c) :
                             p \notin LexicalHits(Current', t)]_vars

\* C5: after delete(p) returns success, with or without an embedder, no
\* Embedding Record, Lexical Index entry or Document record remains for p
\* and the records of the other paths are as before.
C5_DeleteRemovesEverything ==
    [][(last'.op = "delete" /\ last'.ok) =>
        LET p == last'.path
        IN  /\ ~HasPath(documents', p)
            /\ ~HasPath(documents_fts', p)
            /\ ~HasPath(document_embeddings', p)
            /\ Others(documents', p) = Others(documents, p)
            /\ Others(documents_fts', p) = Others(documents_fts, p)
            /\ Others(document_embeddings', p) = Others(document_embeddings, p)]_vars

\* C6: on a store with its tables, delete(p) on a path without a Document
\* record returns success and changes no table; a second delete of the same path succeeds like the
\* first and leaves the state and the document count of the first.
C6_DeleteIdempotent ==
    [][/\ (tables /\ last'.op = "delete" /\ ~HasPath(documents, last'.path)) =>
            (last'.ok /\ TablesUnchanged)
       /\ (last.op = "delete" /\ last.ok /\ last'.op = "delete" /\ last'.path = last.path) =>
            (last'.ok /\ TablesUnchanged /\ stats(Current') = stats(Current))]_vars

(***************************************************************************)
(* Properties of the read path, stated over the search that `last` holds   *)
(* and the tables it ran on.                                               *)
(***************************************************************************)
\* The paths the lexical sub-query finds: documents with an index entry
\* that contains the query term and a path the filters let through.
LexicalCandidates(query, path_filters) ==
    IF query = BadQuery THEN {}
    ELSE {p \in PathsOf(documents) :
            /\ PassesFilters(p, path_filters)
            /\ \E i \in DOMAIN documents_fts :
                  documents_fts[i].path = p /\ Matches(documents_fts[i].content, query)}

\* The paths the vector scan finds: documents with an embedding row whose
\* similarity to the query vector reaches the floor.
SemanticCandidates(query, path_filters) ==
    {p \in PathsOf(documents) :
        /\ PassesFilters(p, path_filters)
        /\ \E i \in DOMAIN document_embeddings :
              /\ document_embeddings[i].path = p
              /\ ~FLt(cosine_similarity(embed_text(query),
                                        ChunksExact4(document_embeddings[i].embedding)),
                      SimilarityFloor)}

\* Hybrid search with an embedder that returned a list.
HybridDone ==
    /\ last.op = "search"
    /\ last.search_type = "Hybrid"
    /\ embedder
    /\ last.ok

\* C7: without an embedder, on a store with its tables, a Semantic search
\* returns an error, and a Hybrid search returns without error the list a FullText search returns for the
\* same query, limit and filters, with fts_score set and semantic_score
\* absent.
C7_NoEmbedderSearch ==
    (tables /\ last.op = "search" /\ ~embedder) =>
        /\ last.search_type = "Semantic" => ~last.ok
        /\ last.search_type = "Hybrid" =>
              /\ last.ok
              /\ last.out = search(Current, FALSE, last.query, "FullText", last.top,
                                   last.path_filters, TRUE, <<>>).out
              /\ \A i \in DOMAIN last.out :
                    last.out[i].fts_score # None /\ last.out[i].semantic_score = None

\* The lexical score of a path divided by the largest lexical score, 0 for
\* a path the lexical sub-query did not find.
NormLex(lex, path) ==
    IF ~HasPath(lex, path) THEN FZero
    ELSE FDiv(LastWithPath(lex, path).fts_score,
              FMax([i \in DOMAIN lex |-> lex[i].fts_score], lex[1].fts_score))

\* The cosine similarity of a path, 0 for a path the vector scan did not find.
NormSem(sem, path) ==
    IF ~HasPath(sem, path) THEN FZero ELSE LastWithPath(sem, path).semantic_score

C9_HybridUnion ==
    HybridDone =>
        LET lex == LexicalCandidates(last.query, last.path_filters)
            sem == SemanticCandidates(last.query, last.path_filters)
        IN  /\ PathsOf(last.full) = lex \cup sem
            /\ Len(last.full) = Cardinality(lex \cup sem)
            /\ \A i \in DOMAIN last.full :
                  /\ last.full[i].fts_score # None <=> last.full[i].path \in lex
                  /\ last.full[i].semantic_score # None <=> last.full[i].path \in sem

\* A fused list with a document found only by the vector scan and one found
\* both ways.
C9_Witness ==
    /\ HybridDone
    /\ \E i \in DOMAIN last.full :
          last.full[i].fts_score = None /\ last.full[i].semantic_score # None
    /\ \E i \in DOMAIN last.full :
          last.full[i].fts_score # None /\ last.full[i].semantic_score # None

\* C10: in every mode, for a limit n in 0..127 (10 when none is given), a
\* search returns the first min(n, M) of the M results of the full ranked
\* list, and that list holds every candidate of the mode: no candidate list
\* is cut before fusion and sorting.
C10_LimitAfterRanking ==
    (last.op = "search" /\ last.ok) =>
        LET n == IF last.top = None THEN 10 ELSE last.top[1]
            M == Len(last.full)
            lex == LexicalCandidates(last.query, last.path_filters)
            sem == SemanticCandidates(last.query, last.path_filters)
        IN  /\ n \in 0..127
            /\ last.out = SubSeq(last.full, 1, IF n < M THEN n ELSE M)
            /\ PathsOf(last.full) =
                  CASE last.search_type = "FullText" -> lex
                    [] last.search_type = "Semantic" -> sem
                    [] OTHER -> IF embedder THEN lex \cup sem ELSE lex

\* A Hybrid search with limit 1 over a ranked list of two.
C10_Witness ==
    /\ HybridDone
    /\ last.top = <<1>>
    /\ Len(last.full) = 2
    /\ Len(last.out) = 1
    /\ last.out[1] = last.full[1]

\* path contains f as a literal, case-sensitive substring.
Contains(path, f) ==
    \E i \in 0..(Len(path) - Len(f)) : SubSeq(path, i + 1, i + Len(f)) = f

\* The paths the same search ranks when no filter is given.
UnfilteredPaths ==
    PathsOf(search(Current, embedder, last.query, last.search_type, None, NoFilters,
                   TRUE,
                   CHOOSE o \in Orders(HybridKeys(Current, last.query, NoFilters)) : TRUE
                  ).full)

\* C11: with a non-empty filter set F, in every mode a document is returned
\* only if its path contains an element of F as a literal, case-sensitive
\* substring, and every document the unfiltered search returns whose path
\* contains an element of F is still ranked.
C11_FilterIsSubstring ==
    (last.op = "search" /\ last.ok /\ last.path_filters # NoFilters) =>
        LET F == last.path_filters[2]
        IN  /\ \A i \in DOMAIN last.full :
                  \E k \in DOMAIN F : Contains(last.full[i].path, F[k])
            /\ \A p \in UnfilteredPaths :
                  (\E k \in DOMAIN F : Contains(p, F[k])) => p \in PathsOf(last.full)

\* C12: in every mode the returned list is in non-increasing order of
\* final_score.
C12_RankedByFinalScore ==
    (last.op = "search" /\ last.ok) =>
        \A i, j \in DOMAIN last.out :
            i < j => ~FLt(last.out[i].final_score, last.out[j].final_score)

\* Two results with different scores, the better one from the later row of
\* the documents table.
C12_Witness ==
    /\ last.op = "search"
    /\ last.ok
    /\ Len(last.out) = 2
    /\ FLt(last.out[2].final_score, last.out[1].final_score)
    /\ Len(documents) = 2
    /\ documents[2].path = last.out[1].path

\* The paths of a result list, in order.
PathSeq(seq) == [i \in DOMAIN seq |-> seq[i].path]

\* C13: every execution of the same search (query, mode, limit, filters) on
\* the same store returns the same sequence of paths, whatever the order in
\* which the merged results happen to be iterated.
C13_Deterministic ==
    (last.op = "search" /\ last.ok) =>
        \A order \in Orders(HybridKeys(Current, last.query, last.path_filters)) :
            LET again == search(Current, embedder, last.query, last.search_type,
                                last.top, last.path_filters, TRUE, order)
            IN  again.ok /\ PathSeq(again.out) = PathSeq(last.out)

\* C14: a Hybrid search whose lexical sub-query fails (and whose query
\* embedding, with an embedder, is computed) returns without error, with or
\* without an embedder, the results of the remaining retrieval: the
\* semantic candidates, none with a lexical score.
C14_LexicalFailureSwallowed ==
    (/\ last.op = "search"
     /\ last.search_type = "Hybrid"
     /\ ~search_fts(Current, last.query, last.path_filters).ok
     /\ last.err # "embed") =>
        /\ last.ok
        /\ PathsOf(last.full) =
              IF embedder THEN SemanticCandidates(last.query, last.path_filters) ELSE {}
        /\ \A i \in DOMAIN last.full : last.full[i].fts_score = None

\* C15: a Hybrid search with an embedder returns an error whenever its
\* semantic sub-query fails, be it the query embedding or the scan of the
\* embeddings table.
C15_SemanticFailureSurfaces ==
    (/\ last.op = "search"
     /\ last.search_type = "Hybrid"
     /\ embedder
     /\ \/ last.err = "embed"
        \/ ~search_by_embedding(Current, embed_text(last.query), last.path_filters).ok) =>
        ~last.ok

\* C16: every FullText result has fts_score present, semantic_score absent
\* and final_score = fts_score; every Semantic result has semantic_score
\* present, fts_score absent and final_score = semantic_score; every Hybrid
\* result has at least one of the two scores.
C16_ScoreFields ==
    (last.op = "search" /\ last.ok) =>
        \A i \in DOMAIN last.out :
            LET r == last.out[i]
            IN  CASE last.search_type = "FullText" ->
                        /\ r.fts_score # None
                        /\ r.semantic_score = None
                        /\ r.final_score = r.fts_score
                  [] last.search_type = "Semantic" ->
                        /\ r.semantic_score # None
                        /\ r.fts_score = None
                        /\ r.final_score = r.semantic_score
                  [] OTHER -> r.fts_score # None \/ r.semantic_score # None

\* A FullText search that returns a document which has an embedding row.
C16_Witness ==
    /\ last.op = "search"
    /\ last.ok
    /\ last.search_type = "FullText"
    /\ embedder
    /\ Len(last.out) = 2
    /\ HasPath(document_embeddings, last.out[1].path)

\* The candidate paths of the mode of the search in `last`.
Candidates ==
    LET lex == LexicalCandidates(last.query, last.path_filters)
        sem == SemanticCandidates(last.query, last.path_filters)
    IN  CASE last.search_type = "FullText" -> lex
          [] last.search_type = "Semantic" -> sem
          [] OTHER -> IF embedder THEN lex \cup sem ELSE lex

\* C17: on a store with its tables, in every mode the configuration offers
\* (Semantic needs an embedder), a search whose sub-queries run (a query the
\* index accepts, an embedding that is computed) and find no candidate
\* returns an empty list and no error.
C17_EmptyIsNotAnError ==
    (/\ last.op = "search"
     /\ tables
     /\ last.query # BadQuery
     /\ last.err # "embed"
     /\ (last.search_type = "Semantic" => embedder)
     /\ Candidates = {}) =>
        (last.ok /\ last.full = <<>> /\ last.out = <<>>)

\* A search on a store that holds documents, none of which is a candidate.
C17_Witness ==
    /\ last.op = "search"
    /\ last.ok
    /\ last.out = <<>>
    /\ last.query # BadQuery
    /\ documents # <<>>
    /\ documents_fts # <<>>
    /\ Candidates = {}

\* The change of the document count in a step.
StatsDelta == stats(Current') - stats(Current)

\* C18: stats is the number of distinct paths successfully inserted or
\* upserted and not successfully deleted since: a call raises it by one
\* exactly when an insert or upsert of a path without a Document succeeds,
\* lowers it by one exactly when a delete of a path with a Document
\* succeeds, and nothing else changes it.
C18_StatsCountsSuccessfulWrites ==
    [][/\ stats(Current') = Cardinality(PathsOf(documents'))
       /\ CASE last'.op \in {"insert", "upsert"} ->
                 StatsDelta = IF last'.ok /\ ~HasPath(documents, last'.path) THEN 1 ELSE 0
            [] last'.op = "delete" ->
                 StatsDelta = IF last'.ok /\ HasPath(documents, last'.path) THEN -1 ELSE 0
            [] OTHER -> disk = NoDisk => StatsDelta = 0]_vars

\* C18, amended: stats is the number of Document records, one per path; an
\* insert or upsert of a path without a Document raises it by one when it
\* succeeds and also when it fails after the documents row was written (the
\* embedding step failed); a successful delete of a path with a Document
\* lowers it by one; a rejected duplicate insert, an upsert of an existing
\* path, a delete of an absent path, a failed delete and create_table leave
\* it unchanged.
C18_StatsCountsDocuments ==
    [][/\ stats(Current') = Cardinality(PathsOf(documents'))
       /\ CASE last'.op \in {"insert", "upsert"} ->
                 StatsDelta = IF /\ tables
                                 /\ ~HasPath(documents, last'.path)
                                 /\ last'.ok \/ last'.err \in {"embed", "constraint"}
                              THEN 1 ELSE 0
            [] last'.op = "delete" ->
                 StatsDelta = IF last'.ok /\ HasPath(documents, last'.path) THEN -1 ELSE 0
            [] OTHER -> disk = NoDisk => StatsDelta = 0]_vars

\* An insert that returned the embedding error and is counted by stats.
C18_Witness ==
    /\ last.op = "insert"
    /\ last.err = "embed"
    /\ HasPath(documents, last.path)
    /\ ~HasPath(document_embeddings, last.path)
    /\ stats(Current) = 2

\* The documents a store answers a lexical search for the given query with.
Observed(s, query) == search_fulltext_only(s, query, NoFilters)

MaxScores == 3
FarScore == 800

\* Scores one apart, and one far above them.
ScoreValues == {<<0, 1>>, <<1, 1>>, <<2, 1>>, <<3, 1>>, <<FarScore, 1>>}

ScoreLists == UNION {[1..n -> ScoreValues] : n \in 0..MaxScores}

SoftmaxInit ==
    /\ documents = <<>>
    /\ documents_fts = <<>>
    /\ document_embeddings = <<>>
    /\ tables = FALSE
    /\ embedder = FALSE
    /\ foreign_keys = FALSE
    /\ disk = NoDisk
    /\ \E scores \in ScoreLists : last = [op |-> "scores", scores |-> scores, out |-> <<>>]

Softmax ==
    /\ last.op = "scores"
    /\ last' = [op |-> "softmax", scores |-> last.scores, out |-> softmax(last.scores)]
    /\ UNCHANGED <<documents, documents_fts, document_embeddings, tables,
                   embedder, foreign_keys, disk>>

SoftmaxSpec == SoftmaxInit /\ [][Softmax]_vars

\* The sum, the uniform case and the one-element case of the softmax law,
\* and the empty list, for the list transformed in this state.
SoftmaxShares(scores, out) ==
    /\ Len(out) = Len(scores)
    /\ scores # <<>> => FSum(out) = FOne
    /\ (\A i, j \in DOMAIN scores : scores[i] = scores[j]) =>
            \A i \in DOMAIN scores : out[i] = Frac(1, Len(scores))
    /\ Len(scores) = 1 => out = <<FOne>>
    /\ scores = <<>> => out = <<>>

\* The score is so far below the largest one that exp of the difference is 0.
Underflows(scores, i) ==
    LET d == FAdd(scores[i], FNeg(FMax(scores, NegInfinity)))
    IN  d[1] + ExpUnderflow * d[2] <= 0

UniquePaths(table) ==
    \A i, j \in DOMAIN table : table[i].path = table[j].path => i = j

\* C21: in every reachable state each path has at most one Document
\* record, at most one Embedding Record and at most one Lexical Index
\* entry, and no search result list of any mode holds a path twice.
C21_PathUnique ==
    /\ UniquePaths(documents)
    /\ UniquePaths(document_embeddings)
    /\ UniquePaths(documents_fts)
    /\ last.op = "search" => UniquePaths(last.out) /\ UniquePaths(last.full)

\* A hybrid search has returned both documents of a store whose path a was
\* written more than once (its content is the second one).
C21_Witness ==
    /\ last.op = "search"
    /\ last.search_type = "Hybrid"
    /\ last.ok
    /\ Len(last.out) = 2
    /\ \E i \in DOMAIN documents :
          documents[i].path = PathA /\ documents[i].updatedAt # documents[i].createdAt


(***************************************************************************)
(* The command line (bin/main.rs): each command is one run of the program  *)
(* on the database file, with an engine that has an embedder.              *)
(***************************************************************************)
MaxDocs == 1

\* The JSON files given to the index command: arrays of DocumentRequest.
DocLists == UNION {[1..n -> Calls] : n \in 0..MaxDocs}

\* The --path argument: a path that does not exist, or a JSON file.
IndexInputs ==
    {[exists |-> FALSE, docs |-> <<>>]}
        \cup {[exists |-> TRUE, docs |-> d] : d \in DocLists}

RECURSIVE process_json_file(_, _, _, _, _)
\* process_json_file: upsert_document for each request, `?` on the first error.
process_json_file(s, fk, docs, oks, i) ==
    IF i > Len(docs) THEN Ok(s)
    ELSE LET r == upsert_document(s, TRUE, fk, docs[i], docs[i].now, oks[i])
         IN  IF ~r.ok THEN r ELSE process_json_file(r.store, fk, docs, oks, i + 1)

IndexResult(ok, panic, err, failed_count, s) ==
    [ok |-> ok, panic |-> panic, err |-> err, failed_count |-> failed_count,
     total_document_count |-> stats(s), store |-> s]

\* process_files on a single file, then update_total_document_count:
\* std::fs::metadata(path).expect(..) panics when the path does not exist.
ingest(s, fk, input, oks) ==
    IF ~input.exists THEN IndexResult(FALSE, TRUE, "panic", 0, s)
    ELSE LET f == process_json_file(s, fk, input.docs, oks, 1)
         IN  IndexResult(TRUE, FALSE, "none", IF f.ok THEN 0 ELSE 1, f.store)

\* Commands::Index: the embedder, the engine, create_table, the ingestor.
index(s, fk, modelOk, input, oks) ==
    IF ~modelOk THEN IndexResult(FALSE, FALSE, "model", 0, s)
    ELSE ingest(create_table(s), fk, input, oks)

\* usize as i8: the low 8 bits, read as a signed byte.
AsI8(n) ==
    LET m == n % 256
    IN  IF m >= 128 THEN m - 256 ELSE m

\* The --limit values: small ones, the default, and the ones around the
\* ends of the signed byte.
CliLimits == {0, 1, DefaultTop, 128, 256, 257}

\* Commands::Search: engine.search(.., Some(limit as i8)), then
\* results_count = results.len() and results.iter().take(limit).
cli_search(s, modelOk, query, search_type, limit, embedOk, order) ==
    LET r == search(s, TRUE, query, search_type, <<AsI8(limit)>>, NoFilters,
                    embedOk, order)
    IN  IF ~modelOk
        THEN [ok |-> FALSE, err |-> "model", full |-> <<>>, results_count |-> 0,
              out |-> <<>>]
        ELSE [ok |-> r.ok, err |-> r.err, full |-> r.full,
              results_count |-> Len(r.out),
              out |-> SubSeq(r.out, 1, Min(limit, Len(r.out)))]

IndexDone(input, r) ==
    [op |-> "index", input |-> input, ok |-> r.ok, panic |-> r.panic,
     err |-> r.err, failed_count |-> r.failed_count,
     total_document_count |-> r.total_document_count]

\* One run of the index command; when the embedder cannot be loaded the
\* input is not looked at.
Index ==
    /\ last.op # "search"
    /\ \E modelOk \in BOOLEAN, input \in IndexInputs :
        \E oks \in [1..Len(input.docs) -> BOOLEAN] :
            LET r == index(Current, foreign_keys, modelOk, input, oks)
            IN  /\ modelOk \/ input = [exists |-> FALSE, docs |-> <<>>]
                /\ Install(r.store)
                /\ last' = IndexDone(IF modelOk THEN input ELSE None, r)
    /\ embedder' = TRUE
    /\ UNCHANGED <<foreign_keys, disk>>

CliSearched(query, search_type, limit, r) ==
    [op |-> "search", query |-> query, search_type |-> search_type,
     limit |-> limit, panic |-> FALSE, ok |-> r.ok, err |-> r.err,
     full |-> r.full, results_count |-> r.results_count, out |-> r.out]

\* One run of the search command; the embedding of the query is computed
\* in the semantic and hybrid modes only.
CliSearch ==
    /\ last.op # "search"
    /\ \E query \in Queries, search_type \in SearchTypes, limit \in CliLimits,
          embedOk \in BOOLEAN :
        \E order \in Orders(HybridKeys(Current, query, NoFilters)) :
            /\ embedOk \/ search_type # "FullText"
            /\ last' = CliSearched(query, search_type, limit,
                                   cli_search(Current, TRUE, query, search_type,
                                              limit, embedOk, order))
    /\ embedder' = TRUE
    /\ UNCHANGED <<documents, documents_fts, document_embeddings, tables,
                   foreign_keys, disk>>

\* The search command when the embedder cannot be loaded.
CliSearchNoModel ==
    /\ last.op # "search"
    /\ \E query \in Queries, limit \in CliLimits :
        last' = CliSearched(query, "Hybrid", limit,
                            cli_search(Current, FALSE, query, "Hybrid", limit, TRUE, <<>>))
    /\ UNCHANGED <<documents, documents_fts, document_embeddings, tables,
                   embedder, foreign_keys, disk>>

CliNext == Index \/ CliSearch \/ CliSearchNoModel

CliSpec == Init /\ [][CliNext]_vars

\* C22: every failure of an operation, the file ingestion that drives
\* upsert included, reaches the caller as an error value: no command ends
\* in a panic.
C22_NoPanic ==
    last.op \in {"index", "search"} => ~last.panic


\* C23: for every --limit N and every number M of ranked candidates the
\* search command lists exactly the top min(N, M) results and reports as
\* results_count the number of results it lists.
C23_CliLimit ==
    (last.op = "search" /\ last.ok) =>
        /\ last.out = SubSeq(last.full, 1, Min(last.limit, Len(last.full)))
        /\ last.results_count = Len(last.out)

\* The Lexical Index entries of the path.
IndexEntries(fts, path) == SelectSeq(fts, LAMBDA row : row.path = path)

\* C29: the index command run on a store that already holds the documents
\* of its input leaves every one of them with a Lexical Index entry that
\* holds its current content.
C29_ReindexKeepsIndex ==
    [][(/\ last'.op = "index"
        /\ last'.ok
        /\ last'.failed_count = 0
        /\ \A i \in DOMAIN last'.input.docs :
              HasPath(documents, last'.input.docs[i].path)) =>
            \A i \in DOMAIN documents' :
                HasPath(last'.input.docs, documents'[i].path) =>
                    IndexEntries(documents_fts', documents'[i].path)
                        = <<[path |-> documents'[i].path,
                             content |-> documents'[i].content]>>]_vars


\* C24: insert writes the Document record, then (with an embedder) the
\* Embedding Record, then the Lexical Index entry; a failing step returns
\* its error at once, the later steps are not performed and the earlier
\* ones are not undone, so when the embedding computation fails the path
\* has its Document record, no Embedding Record and no Lexical Index entry.
C24_InsertStepsNoRollback ==
    [][(last'.op = "insert" /\ tables) =>
         /\ last'.err = "duplicate" => TablesUnchanged
         /\ last'.err # "duplicate" =>
              /\ HasPath(documents', last'.path)
              /\ Others(documents', last'.path) = documents
         /\ last'.ok =>
              /\ embedder => HasPath(document_embeddings', last'.path)
              /\ ~embedder => document_embeddings' = document_embeddings
              /\ HasPath(documents_fts', last'.path)
         /\ last'.err \in {"embed", "constraint"} =>
              /\ document_embeddings' = document_embeddings
              /\ documents_fts' = documents_fts
         /\ last'.err = "embed" =>
              /\ ~HasPath(document_embeddings', last'.path)
              /\ ~HasPath(documents_fts', last'.path)]_vars


\* C25: in every reachable state every Embedding Record's path has a
\* Document record.
C25_EmbeddingHasDocument ==
    \A i \in DOMAIN document_embeddings :
        HasPath(documents, document_embeddings[i].path)


(***************************************************************************)
(* Properties of the read path under filters and damaged stores.           *)
(***************************************************************************)
\* The store with every row of a path that does not match the filters
\* taken out: any two stores that agree on the matching documents have the
\* same restriction.
Restricted(s, path_filters) ==
    [s EXCEPT
       !.documents = SelectSeq(@, LAMBDA row : PassesFilters(row.path, path_filters)),
       !.documents_fts = SelectSeq(@, LAMBDA row : PassesFilters(row.path, path_filters)),
       !.document_embeddings =
            SelectSeq(@, LAMBDA row : PassesFilters(row.path, path_filters))]

\* The result lists a search can return on the store.
Answers(s, emb, query, search_type, top, path_filters) ==
    {search(s, emb, query, search_type, top, path_filters, TRUE, order).out :
        order \in Orders(HybridKeys(s, query, path_filters))}

\* C26: with a non-empty path filter the documents outside the filter have
\* no influence on a search: on every store that agrees with this one on
\* the documents matching the filter the search returns the same result
\* lists with the same fts_score, semantic_score and final_score (where
\* equal final scores leave the order open, the same lists are possible).
C26_FilterNoninterference ==
    (/\ last.op = "search"
     /\ last.ok
     /\ last.path_filters # NoFilters) =>
        /\ last.out \in Answers(Restricted(Current, last.path_filters), embedder,
                                last.query, last.search_type, last.top,
                                last.path_filters)
        /\ Answers(Restricted(Current, last.path_filters), embedder, last.query,
                   last.search_type, last.top, last.path_filters)
             = Answers(Current, embedder, last.query, last.search_type, last.top,
                       last.path_filters)

\* A hybrid search filtered to path a has returned a with both scores on a
\* store where b, too, matches the query and has a vector.
C26_Witness ==
    /\ last.op = "search"
    /\ last.ok
    /\ last.search_type = "Hybrid"
    /\ last.path_filters = SomeFilters(<<PathA>>)
    /\ Len(last.out) = 1
    /\ last.out[1].path = PathA
    /\ last.out[1].fts_score # None
    /\ last.out[1].semantic_score # None
    /\ Len(FtsHits(Current, last.query, NoFilters)) = 2
    /\ Len(EmbeddingRows(Current, NoFilters)) = 2


(***************************************************************************)
(* Stores whose vectors come from embedders of different dimensions: the   *)
(* store is populated as before, some Embedding Records are rewritten by   *)
(* an engine built on another model, and one semantic or hybrid search is  *)
(* made.                                                                   *)
(***************************************************************************)
\* The vector the other model gives every text: one component more.
OtherModelVector == <<3, 4, 0>>

\* An engine built on the other model has updated the vector of a path.
Reembed ==
    /\ last.op = "new"
    /\ \E i \in DOMAIN document_embeddings :
          /\ Len(ChunksExact4(document_embeddings[i].embedding)) # Len(OtherModelVector)
          /\ document_embeddings' =
                SqlUpdateEmbedding(document_embeddings, document_embeddings[i].path,
                                   FlatMapBytes(OtherModelVector))
    /\ UNCHANGED <<documents, documents_fts, tables, embedder, foreign_keys, disk, last>>

SearchVectors ==
    /\ last.op = "new"
    /\ \E query \in Queries, search_type \in {"Semantic", "Hybrid"} :
        \E order \in Orders(HybridKeys(Current, query, NoFilters)) :
            last' = Searched(query, search_type, None, NoFilters,
                             search(Current, embedder, query, search_type, None,
                                    NoFilters, TRUE, order))
    /\ UNCHANGED <<documents, documents_fts, document_embeddings, tables,
                   embedder, foreign_keys, disk>>

MixedNext == Populate \/ Configure \/ Reembed \/ SearchVectors

MixedSpec == Init /\ [][MixedNext]_vars

\* The Embedding Records whose vector is as long as the query vector.
SameLength(emb, query) ==
    SelectSeq(emb, LAMBDA row :
        Len(ChunksExact4(row.embedding)) = Len(embed_text(query)))

\* The paths whose stored vector has another length than the query vector.
Mismatched(emb, query) == PathsOf(emb) \ PathsOf(SameLength(emb, query))

\* C27: a stored vector whose length differs from the query vector's does
\* not make Semantic or Hybrid search fail; its document gets no semantic
\* score and is not a semantic candidate, and every other document is
\* scored and returned as if that Embedding Record were absent.
C27_MismatchedVectorSkipped ==
    (last.op = "search" /\ embedder /\ tables) =>
        /\ last.ok
        /\ \A i \in DOMAIN last.out :
              last.out[i].path \in Mismatched(document_embeddings, last.query) =>
                  /\ last.search_type = "Hybrid"
                  /\ last.out[i].semantic_score = None
        /\ last.out \in Answers([Current EXCEPT !.document_embeddings =
                                    SameLength(@, last.query)],
                                embedder, last.query, last.search_type, last.top,
                                last.path_filters)

\* A semantic search on a store with vectors of both lengths has returned
\* the document whose vector fits and not the other one.
C27_Witness ==
    /\ last.op = "search"
    /\ last.search_type = "Semantic"
    /\ last.ok
    /\ Mismatched(document_embeddings, last.query) = {PathA}
    /\ HasPath(documents, PathA)
    /\ Len(last.out) = 1
    /\ last.out[1].path = PathB


\* The paths that have a Document record and no Embedding Record.
Unembedded == {p \in PathsOf(documents) : ~HasPath(document_embeddings, p)}

\* C28: where a Document record exists for a path without an Embedding
\* Record, Semantic and Hybrid search (on an engine with an embedder, the
\* query embedding computed) succeed and give that path no semantic score;
\* and in every mode every path a search returns has a Document record.
C28_SearchOnPartialWrites ==
    last.op = "search" =>
        /\ (/\ embedder
            /\ last.search_type \in {"Semantic", "Hybrid"}
            /\ last.err # "embed"
            /\ Unembedded # {}) =>
                /\ last.ok
                /\ \A i \in DOMAIN last.full :
                      last.full[i].path \in Unembedded =>
                          /\ last.search_type = "Hybrid"
                          /\ last.full[i].semantic_score = None
        /\ \A i \in DOMAIN last.full : HasPath(documents, last.full[i].path)

\* A hybrid search has returned path a, which has no Embedding Record, as
\* a lexical candidate only, on a store that also holds an Embedding Record
\* of path b without a Document.
C28_Witness ==
    /\ last.op = "search"
    /\ last.search_type = "Hybrid"
    /\ embedder
    /\ last.ok
    /\ Unembedded = {PathA}
    /\ HasPath(document_embeddings, PathB)
    /\ ~HasPath(documents, PathB)
    /\ Len(last.full) = 1
    /\ last.full[1].path = PathA
    /\ last.full[1].semantic_score = None

\* C30: a refresh that returns an error leaves the engine on the connection
\* it held before the call (so that every later operation behaves as it
\* would have without the call); the connection is replaced only when
\* refresh succeeds.
C30_FailedRefreshKeepsConnection ==
    [][(last'.op = "refresh" /\ ~last'.ok) =>
            /\ Current' = Current
            /\ disk' = disk
            /\ stats(Current') = stats(Current)]_vars

====
